---------------------------- MODULE Spec2Model ----------------------------
(***************************************************************************)
(* Model of the WEDM-AI-simulation dashboard logic:                        *)
(*   - AIModelPanel (src/unnamed/part_000): the training orchestrator, a   *)
(*     setInterval-driven progress counter that ends in onTrainModel;      *)
(*   - ParameterPanel (src/src/components/ParameterPanel.tsx): the change  *)
(*     handlers of the material / grade / gas selects and range sliders;   *)
(*   - aiModels.ts (src/src/utils/aiModels.ts): the four train* functions  *)
(*     and the predict closures they return.                               *)
(* Real numbers are fixed-point integers in thousandths (MILLI).           *)
(***************************************************************************)
EXTENDS Integers, Sequences, FiniteSets, TLC

VARIABLES
    selectedModel,      \* useState('SVM')                       part_000:10
    trainingProgress,   \* useState(0)                           part_000:11
    isTraining,         \* useState(false)                       part_000:12
    timers,             \* live setInterval handles, each with the closure's selectedModel
    timerSeq,           \* last interval handle issued by setInterval
    trainingResults,    \* the trainingResults prop: model id -> result (owner: parent)
    calls,              \* number of onTrainModel invocations so far
    mounted,            \* the AIModelPanel instance is mounted
    event,              \* the AIModelPanel handler that ran last
    parameters,         \* the parameters prop of ParameterPanel (owner: parent)
    nChanges,           \* number of change events ParameterPanel has handled
    lastChange,         \* the control and value of the last change event
    trainCall,          \* the arguments of the train* call made, if any
    trained,            \* what that call resolved with: a ModelResult or an error
    prediction          \* what trained.predict(params) returned, if called

orchestratorVars == <<selectedModel, trainingProgress, isTraining, timers, timerSeq,
                      trainingResults, calls, mounted, event>>
panelVars == <<parameters, nChanges, lastChange>>
factoryVars == <<trainCall, trained, prediction>>

vars == <<orchestratorVars, panelVars, factoryVars>>

-----------------------------------------------------------------------------
(* Bounds *)

MaxRuns == 3            \* training runs started in one behaviour
MaxChanges == 3         \* change events delivered to ParameterPanel in one behaviour
MaxStops == 2           \* slider positions explored next to each end of a range
MaxSeed == 1            \* Math.random() sequences explored: seeds 0..MaxSeed
RandLevels == 8         \* values of one Math.random() draw: u / RandLevels, u < RandLevels
MaxRealRecords == 2     \* largest curated dataset the loader returns

\* The unit of the fixed-point numbers: a JS number x is the integer x * 1000.
MILLI == 1000

-----------------------------------------------------------------------------
(* AIModelPanel *)

\* models[].id, part_000:14-19
ModelIds == {"SVM", "ANN", "ELM", "GA"}

ProgressStep == 2       \* return prev + 2
ProgressDone == 100     \* if (prev >= 100)

\* The parent's onTrainModel(modelType, data): trains the predictor for
\* modelType and stores its ModelResult under modelType, overwriting any
\* earlier entry.  The parent component is not part of the sources; this is
\* the behaviour the specification gives it (section 4.4).  A result is
\* identified by the number of the invocation that produced it.
onTrainModel(modelType, res) ==
    [k \in (DOMAIN trainingResults) \cup {modelType} |->
        IF k = modelType THEN res ELSE trainingResults[k]]

\* handleTrainModel memoised once at the first render: its closure keeps the
\* initial selectedModel, useState('SVM') at part_000:10.
handleTrainModel_StaleClosure ==
    /\ isTraining' = TRUE
    /\ trainingProgress' = 0
    /\ timerSeq' = timerSeq + 1
    /\ timers' = timers \cup {[id |-> timerSeq + 1, model |-> "SVM"]}
    /\ UNCHANGED <<selectedModel, trainingResults, calls, mounted>>

\* handleTrainModel without setTrainingProgress(0).
handleTrainModel_NoReset ==
    /\ isTraining' = TRUE
    /\ timerSeq' = timerSeq + 1
    /\ timers' = timers \cup {[id |-> timerSeq + 1, model |-> selectedModel]}
    /\ UNCHANGED <<trainingProgress, selectedModel, trainingResults, calls, mounted>>

\* handleTrainModel, part_000:21-37: no guard of its own.
handleTrainModel ==
    /\ isTraining' = TRUE
    /\ trainingProgress' = 0
    /\ timerSeq' = timerSeq + 1
    /\ timers' = timers \cup {[id |-> timerSeq + 1, model |-> selectedModel]}
    /\ UNCHANGED <<selectedModel, trainingResults, calls, mounted>>

\* The train button without disabled={isTraining}.
TrainButtonClick_NoDisable ==
    /\ mounted
    /\ timerSeq < MaxRuns
    /\ event' = "train"
    /\ handleTrainModel
    /\ UNCHANGED <<panelVars, factoryVars>>

\* The train button, part_000:85-91: onClick={handleTrainModel},
\* disabled={isTraining}.  A click on the disabled button runs no handler.
TrainButtonClick ==
    /\ mounted
    /\ timerSeq < MaxRuns
    /\ UNCHANGED <<panelVars, factoryVars>>
    /\ IF isTraining
         THEN /\ event' = "trainDisabled"
              /\ UNCHANGED <<selectedModel, trainingProgress, isTraining, timers,
                             timerSeq, trainingResults, calls, mounted>>
         ELSE /\ event' = "train"
              /\ handleTrainModel

\* A model button, part_000:64-68: onClick={() => setSelectedModel(id)};
\* the buttons are never disabled.
SelectModel(id) ==
    /\ mounted
    /\ id # selectedModel
    /\ selectedModel' = id
    /\ event' = "select"
    /\ UNCHANGED <<trainingProgress, isTraining, timers, timerSeq,
                   trainingResults, calls, mounted>>
    /\ UNCHANGED <<panelVars, factoryVars>>

\* The callback reading the current selectedModel instead of the closure's.
Tick_LiveSelection(t) ==
    /\ t \in timers
    /\ IF trainingProgress >= ProgressDone
         THEN /\ timers' = timers \ {t}
              /\ isTraining' = FALSE
              /\ calls' = calls + 1
              /\ trainingResults' = onTrainModel(selectedModel, calls + 1)
              /\ trainingProgress' = ProgressDone
              /\ event' = "complete"
         ELSE /\ trainingProgress' = trainingProgress + ProgressStep
              /\ event' = "tick"
              /\ UNCHANGED <<isTraining, timers, calls, trainingResults>>
    /\ UNCHANGED <<selectedModel, timerSeq, mounted>>
    /\ UNCHANGED <<panelVars, factoryVars>>

\* The callback testing prev > 100 instead of prev >= 100.
Tick_OffByOne(t) ==
    /\ t \in timers
    /\ IF trainingProgress > ProgressDone
         THEN /\ timers' = timers \ {t}
              /\ isTraining' = FALSE
              /\ calls' = calls + 1
              /\ trainingResults' = onTrainModel(t.model, calls + 1)
              /\ trainingProgress' = ProgressDone
              /\ event' = "complete"
         ELSE /\ trainingProgress' = trainingProgress + ProgressStep
              /\ event' = "tick"
              /\ UNCHANGED <<isTraining, timers, calls, trainingResults>>
    /\ UNCHANGED <<selectedModel, timerSeq, mounted>>
    /\ UNCHANGED <<panelVars, factoryVars>>

\* The callback without clearInterval(interval).
Tick_NoClear(t) ==
    /\ t \in timers
    /\ IF trainingProgress >= ProgressDone
         THEN /\ isTraining' = FALSE
              /\ calls' = calls + 1
              /\ trainingResults' = onTrainModel(t.model, calls + 1)
              /\ trainingProgress' = ProgressDone
              /\ event' = "complete"
              /\ UNCHANGED timers
         ELSE /\ trainingProgress' = trainingProgress + ProgressStep
              /\ event' = "tick"
              /\ UNCHANGED <<isTraining, timers, calls, trainingResults>>
    /\ UNCHANGED <<selectedModel, timerSeq, mounted>>
    /\ UNCHANGED <<panelVars, factoryVars>>

\* One firing of the interval callback of timer t, part_000:26-36.
\* t.model is the selectedModel captured by the closure of the render in
\* which handleTrainModel ran.
Tick(t) ==
    /\ t \in timers
    /\ IF trainingProgress >= ProgressDone
         THEN /\ timers' = timers \ {t}                          \* clearInterval
              /\ isTraining' = FALSE                             \* setIsTraining(false)
              /\ calls' = calls + 1                              \* onTrainModel(...)
              /\ trainingResults' = onTrainModel(t.model, calls + 1)
              /\ trainingProgress' = ProgressDone                \* return 100
              /\ event' = "complete"
         ELSE /\ trainingProgress' = trainingProgress + ProgressStep
              /\ event' = "tick"
              /\ UNCHANGED <<isTraining, timers, calls, trainingResults>>
    /\ UNCHANGED <<selectedModel, timerSeq, mounted>>
    /\ UNCHANGED <<panelVars, factoryVars>>

\* Unmounting the panel.  The component registers no cleanup (there is no
\* useEffect and clearInterval appears only at part_000:29), so the interval
\* stays scheduled and its callback keeps running.
Teardown ==
    /\ mounted
    /\ mounted' = FALSE
    /\ event' = "teardown"
    /\ UNCHANGED <<selectedModel, trainingProgress, isTraining, timers, timerSeq,
                   trainingResults, calls>>
    /\ UNCHANGED <<panelVars, factoryVars>>

-----------------------------------------------------------------------------
(* ParameterPanel *)

\* part of ParameterPanel.tsx:24-31
materialOptions == <<"Mild Steel", "Stainless Steel", "Aluminium", "Titanium">>
gradeOptions ==
    [m \in {"Mild Steel", "Stainless Steel", "Aluminium", "Titanium"} |->
        CASE m = "Mild Steel" -> <<"S355JR">>
          [] m = "Stainless Steel" -> <<"AISI 304">>
          [] m = "Aluminium" -> <<"Al-6061">>
          [] m = "Titanium" -> <<"Ti6Al4V">>]
gasOptions == <<"O2 @ 0.40 bar", "N2 @ 1.0 bar", "N2 @ 1.2 bar", "N2 @ 1.5 bar">>

Range(seq) == {seq[i] : i \in 1..Len(seq)}

\* parameterConfigs, ParameterPanel.tsx:33-42 (min, max, step in thousandths)
parameterConfigs ==
    [thickness        |-> [min |-> 2000,   max |-> 10000,   step |-> 500],
     laserPower       |-> [min |-> 2500,   max |-> 6000,    step |-> 100],
     speed            |-> [min |-> 500000, max |-> 5000000, step |-> 25000],
     surfaceRoughness |-> [min |-> 700,    max |-> 1500,    step |-> 100],
     deviation        |-> [min |-> 70,     max |-> 225,     step |-> 5],
     kerfTaper        |-> [min |-> 10,     max |-> 210,     step |-> 10],
     hazDepth         |-> [min |-> 15000,  max |-> 320000,  step |-> 5000],
     linearEnergy     |-> [min |-> 33000,  max |-> 240000,  step |-> 1000]]

NumericKeys == DOMAIN parameterConfigs

\* The explored positions of a slider with positions 0..n.
Stops(n) == {i \in 0..(MaxStops - 1) : i <= n} \cup {i \in (n - MaxStops + 1)..n : i >= 0}

\* A range input whose max attribute is not applied.
sliderValues_NoMax(key) ==
    LET c == parameterConfigs[key]
        n == (c.max - c.min) \div c.step
    IN  {c.min + i * c.step : i \in Stops(n + 1)}

\* The values <input type="range" min max step> can report,
\* ParameterPanel.tsx:101-109: min + i * step, never above max.  Only the
\* MaxStops positions next to each end of the range are explored.
sliderValues(key) ==
    LET c == parameterConfigs[key]
        n == (c.max - c.min) \div c.step
    IN  {c.min + i * c.step : i \in Stops(n)}

\* The parent's onParameterChange(key, value): sets the named field and no
\* other.  The parent component is not part of the sources; this is the
\* update operation of the specification (section 4.3); it does not clamp.
onParameterChange(p, key, value) == [p EXCEPT ![key] = value]

\* A change event was handled.
Changed(key, value) ==
    /\ nChanges' = nChanges + 1
    /\ lastChange' = [key |-> key, value |-> value]
    /\ UNCHANGED <<orchestratorVars, factoryVars>>

\* The material select without the second onParameterChange call.
MaterialChange_NoGradeReset(newMaterial) ==
    /\ nChanges < MaxChanges
    /\ newMaterial \in Range(materialOptions)
    /\ newMaterial # parameters.material
    /\ parameters' = onParameterChange(parameters, "material", newMaterial)
    /\ Changed("material", newMaterial)

\* The material select, ParameterPanel.tsx:57-65.  A select reports a
\* change only when another option is chosen.
MaterialChange(newMaterial) ==
    /\ nChanges < MaxChanges
    /\ newMaterial \in Range(materialOptions)
    /\ newMaterial # parameters.material
    /\ LET newGrade == gradeOptions[newMaterial][1]
       IN  parameters' = onParameterChange(
                             onParameterChange(parameters, "material", newMaterial),
                             "grade", newGrade)
    /\ Changed("material", newMaterial)

\* The grade select, ParameterPanel.tsx:79-87.  Every material lists one
\* grade, so no other option can be chosen and the handler never runs
\* from a state in which grade is the material's grade.
GradeChange(grade) ==
    /\ nChanges < MaxChanges
    /\ grade \in Range(gradeOptions[parameters.material])
    /\ grade # parameters.grade
    /\ parameters' = onParameterChange(parameters, "grade", grade)
    /\ Changed("grade", grade)

\* A range slider, ParameterPanel.tsx:100-110.
SliderChange(key, value) ==
    /\ nChanges < MaxChanges
    /\ key \in NumericKeys
    /\ value \in sliderValues(key)
    /\ value # parameters[key]
    /\ parameters' = onParameterChange(parameters, key, value)
    /\ Changed(key, value)

\* The gas and pressure select, ParameterPanel.tsx:126-134.
GasChange(gas) ==
    /\ nChanges < MaxChanges
    /\ gas \in Range(gasOptions)
    /\ gas # parameters.gasAndPressure
    /\ parameters' = onParameterChange(parameters, "gasAndPressure", gas)
    /\ Changed("gasAndPressure", gas)

\* The parameters the parent starts with: the first material with its
\* grade, the first gas option, every slider at the low end of its range.
InitPanel ==
    /\ LET m == materialOptions[1] IN
          parameters =
            [material |-> m, grade |-> gradeOptions[m][1],
             gasAndPressure |-> gasOptions[1],
             thickness |-> parameterConfigs.thickness.min,
             laserPower |-> parameterConfigs.laserPower.min,
             speed |-> parameterConfigs.speed.min,
             surfaceRoughness |-> parameterConfigs.surfaceRoughness.min,
             deviation |-> parameterConfigs.deviation.min,
             kerfTaper |-> parameterConfigs.kerfTaper.min,
             hazDepth |-> parameterConfigs.hazDepth.min,
             linearEnergy |-> parameterConfigs.linearEnergy.min]
    /\ nChanges = 0
    /\ lastChange = [key |-> "none", value |-> 0]

-----------------------------------------------------------------------------
(* aiModels.ts: numbers *)

Max(a, b) == IF a >= b THEN a ELSE b            \* Math.max

\* The product of two fixed-point numbers, b split at MILLI to stay in
\* TLC's integers.
Mul(a, b) == a * (b \div MILLI) + (a * (b % MILLI)) \div MILLI

\* Math.sqrt on integers: the largest r with r * r <= x.
RECURSIVE SqrtIn(_, _, _)
SqrtIn(x, lo, hi) ==
    IF lo >= hi THEN lo
    ELSE LET mid == (lo + hi + 1) \div 2
         IN  IF mid * mid <= x THEN SqrtIn(x, mid, hi) ELSE SqrtIn(x, lo, mid - 1)
Sqrt(x) == SqrtIn(x, 0, 46340)

\* Math.tanh(x), tabulated in steps of 0.25 and saturating at 1.
TanhTable == <<0, 245, 462, 635, 762, 848, 905, 941, 964, 978, 987, 992, 995,
               997, 998, 999, 1000>>
Tanh(x) ==
    LET a == IF x < 0 THEN -x ELSE x
        i == IF a \div 250 >= 16 THEN 16 ELSE a \div 250
    IN  IF x < 0 THEN -TanhTable[i + 1] ELSE TanhTable[i + 1]

\* 1 / (1 + Math.exp(-x)), tabulated in steps of 0.5.
SigmoidTable == <<500, 622, 731, 818, 881, 924, 953, 971, 982, 989, 993, 996,
                  998, 998, 999, 999, 1000>>
Sigmoid(x) ==
    LET a == IF x < 0 THEN -x ELSE x
        i == IF a \div 500 >= 16 THEN 16 ELSE a \div 500
    IN  IF x < 0 THEN MILLI - SigmoidTable[i + 1] ELSE SigmoidTable[i + 1]

\* values.reduce((sum, v) => sum + v, 0) over the first n elements, summed
\* by halves (integer addition is associative).
RECURSIVE SumRange(_, _, _)
SumRange(values, lo, hi) ==
    IF lo > hi THEN 0
    ELSE IF lo = hi THEN values[lo]
    ELSE LET mid == (lo + hi) \div 2
         IN  SumRange(values, lo, mid) + SumRange(values, mid + 1, hi)
SumSeq(values, n) == SumRange(values, 1, n)

\* data.map(d => d[field])
Field(data, field) == [i \in 1..Len(data) |-> data[i][field]]

\* The n-th Math.random() of the sequence `seed`, as a level u < RandLevels
\* standing for u / RandLevels in [0, 1).
U(seed, n) ==
    LET x == (n * 7919 + seed * 104729 + 12345) % 46337
        y == (x * x) % 46337
        z == (y * ((x % 1000) + 1)) % 46337
    IN  (z \div 16) % RandLevels

\* lo + Math.random() * width
Uniform(lo, width, u) == lo + (width * u) \div RandLevels

-----------------------------------------------------------------------------
(* aiModels.ts: datasets *)
(* A record keeps each field at its own resolution, so that the sums of     *)
(* squares of calculateVariance stay in range: voltage, pulseOnTime,        *)
(* pulseOffTime, dielectricFlow, surfaceRoughness, dimensionalAccuracy and  *)
(* processingTime in thousandths, current and wireSpeed in units,           *)
(* materialRemovalRate in tenths.                                           *)

SyntheticSize == 100        \* for (let i = 0; i < 100; i++)
DrawsPerRecord == 7         \* Math.random() calls of one loop iteration

\* One iteration of the loop of generateSyntheticData, aiModels.ts:266-284;
\* b is the number of its first Math.random() draw.
syntheticRecord(seed, b) ==
    LET voltage == Uniform(2500, 3500, U(seed, b))
        current == Uniform(1500, 3100, U(seed, b + 1))
        pulseOnTime == Uniform(2000, 8000, U(seed, b + 2))
        pulseOffTime == Uniform(33000, 207000, U(seed, b + 3))
        wireSpeed == Uniform(1500, 3100, U(seed, b + 4))
        dielectricFlow == Uniform(700, 800, U(seed, b + 5))
    IN  [voltage |-> voltage,
         current |-> current,
         pulseOnTime |-> pulseOnTime,
         pulseOffTime |-> pulseOffTime,
         wireSpeed |-> wireSpeed,
         dielectricFlow |-> dielectricFlow,
         materialRemovalRate |-> (((voltage * current) \div 1000) * pulseOnTime) \div 100000,
         surfaceRoughness |-> dielectricFlow,
         dimensionalAccuracy |-> Uniform(70, 155, U(seed, b + 6)),
         processingTime |-> Max(1000, 60000 - current * 10 - voltage * 2)]

\* The loop running once too often (i <= 100).
generateSyntheticData_OffByOne(seed) ==
    [i \in 1..(SyntheticSize + 1) |-> syntheticRecord(seed, DrawsPerRecord * (i - 1))]

\* generateSyntheticData, aiModels.ts:263-287
generateSyntheticData(seed) ==
    [i \in 1..SyntheticSize |-> syntheticRecord(seed, DrawsPerRecord * (i - 1))]

\* loadEDMDataset of ./datasetLoader, which is not part of the sources: the
\* Dataset Provider of the specification (section 4.1).  `loaded` is the
\* number of records of the curated dataset, 0 when loading it fails; then
\* the provider falls back to the synthetic dataset.  It never throws and
\* never returns an empty sequence.  Curated records lie in the ranges of
\* the synthetic ones.
loadEDMDataset(loaded, seed) ==
    [rejected |-> FALSE,
     data |-> IF loaded = 0
                THEN generateSyntheticData(seed)
                ELSE [i \in 1..loaded |->
                         syntheticRecord(seed + 1, DrawsPerRecord * (i - 1))]]

\* const data = useRealData ? await loadEDMDataset() : generateSyntheticData()
\* aiModels.ts:23, 71, 130, 185
obtainData(useRealData, loaded, seed) ==
    IF useRealData
      THEN loadEDMDataset(loaded, seed)
      ELSE [rejected |-> FALSE, data |-> generateSyntheticData(seed)]

\* The Math.random() draws made before the data is there.
dataDraws(useRealData, loaded) ==
    IF useRealData /\ loaded > 0 THEN 0 ELSE DrawsPerRecord * SyntheticSize

\* calculateVariance, aiModels.ts:256-260 (in the square of the values' unit)
calculateVariance(values) ==
    LET n == Len(values)
        mean == SumSeq(values, n) \div n
        squaredDiffs == [i \in 1..n |-> (values[i] - mean) * (values[i] - mean)]
    IN  SumSeq(squaredDiffs, n) \div n

\* calculateDataStatistics, aiModels.ts:244-254.  Math.sqrt(a * b) is taken
\* as Sqrt(a) * Sqrt(b); the factors come out in thousandths.
calculateDataStatistics(data) ==
    LET voltageVariance == calculateVariance(Field(data, "voltage"))
        currentVariance == calculateVariance(Field(data, "current"))
        mrrVariance == calculateVariance(Field(data, "materialRemovalRate"))
    IN  [correlationFactor |-> (Sqrt(voltageVariance) * Sqrt(currentVariance)) \div 1000,
         varianceFactor |-> Sqrt(mrrVariance) * 10,
         sampleSize |-> Len(data)]

-----------------------------------------------------------------------------
(* aiModels.ts: the predict closures *)

PredictKeys == {"laserPower", "speed", "thickness", "linearEnergy",
                "surfaceRoughness", "deviation"}

\* params[key] || dflt: a missing field and 0 both give the default.
P(params, key, dflt) ==
    IF key \in DOMAIN params /\ params[key] # 0 THEN params[key] ELSE dflt

\* surfaceRoughness, aiModels.ts:46-48 (the same at 104, 159, 222)
predictSurfaceRoughness(params) == Max(100, P(params, "surfaceRoughness", 1000))

\* dimensionalAccuracy, aiModels.ts:49-51 (the same at 107, 162, 225)
predictDimensionalAccuracy(params) == Max(1000, P(params, "deviation", 100) * 1000)

\* predict of trainSVM without the Math.max floors of the two computed outputs.
predictSVM_NoFloor(weights, params) ==
    [materialRemovalRate |->
          Mul(weights.voltage, P(params, "laserPower", 0))
        + (Mul(weights.current, P(params, "speed", 0)) \div 100)
        - Mul(weights.pulseOn, P(params, "thickness", 0))
        + (Mul(weights.pulseOff, P(params, "linearEnergy", 0)) \div 10),
     surfaceRoughness |-> predictSurfaceRoughness(params),
     dimensionalAccuracy |-> predictDimensionalAccuracy(params),
     processingTime |->
          60000 - (P(params, "speed", 1000000) \div 100)
                - (P(params, "laserPower", 1000) * 2)]

\* predict of trainSVM, aiModels.ts:39-55
predictSVM(weights, params) ==
    [materialRemovalRate |-> Max(0,
          Mul(weights.voltage, P(params, "laserPower", 0))
        + (Mul(weights.current, P(params, "speed", 0)) \div 100)
        - Mul(weights.pulseOn, P(params, "thickness", 0))
        + (Mul(weights.pulseOff, P(params, "linearEnergy", 0)) \div 10)),
     surfaceRoughness |-> predictSurfaceRoughness(params),
     dimensionalAccuracy |-> predictDimensionalAccuracy(params),
     processingTime |-> Max(1000,
          60000 - (P(params, "speed", 1000000) \div 100)
                - (P(params, "laserPower", 1000) * 2))]

\* The four normalized inputs, aiModels.ts:88-93 (the same at 144, 211)
normalizedInputs(params) ==
    <<P(params, "laserPower", 3000) \div 6,
      P(params, "speed", 3000000) \div 5000,
      P(params, "thickness", 4000) \div 10,
      P(params, "linearEnergy", 60000) \div 250>>

\* predict of trainANN, aiModels.ts:87-114
predictANN(c, params) ==
    LET inputs == normalizedInputs(params)
        hidden == [i \in 1..4 |->
                      Tanh(Mul(inputs[i], c.hiddenWeights[i]) + c.hiddenWeights[i + 4])]
    IN  [materialRemovalRate |-> Max(0,
             (Mul(hidden[1], c.outputWeights[1]) + Mul(hidden[2], c.outputWeights[2])) * 8),
         surfaceRoughness |-> predictSurfaceRoughness(params),
         dimensionalAccuracy |-> predictDimensionalAccuracy(params),
         processingTime |-> Max(1000,
             Mul(hidden[3] + hidden[4], c.outputWeights[3]) * 40 + 20000)]

\* predict of trainELM, aiModels.ts:143-169
predictELM(c, params) ==
    LET inputs == normalizedInputs(params)
        hiddenOutputs == [i \in 1..4 |->
                      Sigmoid(Mul(inputs[i], c.inputWeights[i]) + c.biases[i])]
        mrr == [i \in 1..4 |-> Mul(hiddenOutputs[i], c.inputWeights[i])]
        time == [i \in 1..4 |-> Mul(hiddenOutputs[i], c.inputWeights[i + 12])]
    IN  [materialRemovalRate |-> Max(0, SumSeq(mrr, 4) * 6),
         surfaceRoughness |-> predictSurfaceRoughness(params),
         dimensionalAccuracy |-> predictDimensionalAccuracy(params),
         processingTime |-> Max(1000, SumSeq(time, 4) * 50 + 15000)]

\* predict of trainGA, aiModels.ts:210-232
predictGA(c, params) ==
    LET features == normalizedInputs(params)
        terms == [i \in 1..4 |-> Mul(features[i], c.bestIndividual.weights[i])]
    IN  [materialRemovalRate |-> Max(0, SumSeq(terms, 4) * 7),
         surfaceRoughness |-> predictSurfaceRoughness(params),
         dimensionalAccuracy |-> predictDimensionalAccuracy(params),
         processingTime |-> Max(1000, SumSeq(terms, 4) * 45 + 25000)]

\* result.predict(params)
predict(result, params) ==
    CASE result.kind = "SVM" -> predictSVM(result.coef, params)
      [] result.kind = "ANN" -> predictANN(result.coef, params)
      [] result.kind = "ELM" -> predictELM(result.coef, params)
      [] result.kind = "GA" -> predictGA(result.coef, params)

-----------------------------------------------------------------------------
(* aiModels.ts: the train functions *)
(* b is the number of the first Math.random() draw after the data.  The    *)
(* trainingTime field (Date.now() - startTime) is not modelled.            *)

\* trainSVM, aiModels.ts:19-64
trainSVM(data, seed, b) ==
    LET n == Len(data)
        avgVoltage == SumSeq(Field(data, "voltage"), n) \div n
        avgCurrent == SumSeq(Field(data, "current"), n) \div n
        avgMRR == SumSeq(Field(data, "materialRemovalRate"), n) \div n
    IN  [kind |-> "SVM",
         accuracy |-> 870 + Uniform(0, 80, U(seed, b)),
         samples |-> n,
         rmse |-> 120 + Uniform(0, 80, U(seed, b + 1)),
         coef |-> [voltage |-> Mul((avgMRR * 100000) \div avgVoltage, 800),
                   current |-> Mul((avgMRR * 100) \div avgCurrent, 1200),
                   pulseOn |-> -8,
                   pulseOff |-> 3]]

\* trainANN, aiModels.ts:67-123
trainANN(data, seed, b) ==
    LET dataStats == calculateDataStatistics(data)
    IN  [kind |-> "ANN",
         accuracy |-> 910 + Uniform(0, 60, U(seed, b + 12)),
         samples |-> Len(data),
         rmse |-> 90 + Uniform(0, 60, U(seed, b + 13)),
         coef |-> [hiddenWeights |->
                       [i \in 1..8 |-> Mul(Uniform(-1000, 2000, U(seed, b + i - 1)),
                                           dataStats.correlationFactor)],
                   outputWeights |->
                       [i \in 1..4 |-> Uniform(-1000, 2000, U(seed, b + 8 + i - 1))]]]

\* trainELM, aiModels.ts:126-178
trainELM(data, seed, b) ==
    LET dataStats == calculateDataStatistics(data)
    IN  [kind |-> "ELM",
         accuracy |-> 940 + Uniform(0, 40, U(seed, b + 20)),
         samples |-> Len(data),
         rmse |-> 60 + Uniform(0, 40, U(seed, b + 21)),
         coef |-> [inputWeights |->
                       [i \in 1..16 |-> Mul(Uniform(-2000, 4000, U(seed, b + i - 1)),
                                            dataStats.varianceFactor)],
                   biases |->
                       [i \in 1..4 |-> Uniform(-1000, 2000, U(seed, b + 16 + i - 1))]]]

PopulationSize == 20        \* Array.from({ length: 20 }, ...)
Survivors == 10             \* population.slice(0, 10)
Generations == 10           \* generation < 10
WeightCount == 8            \* Array.from({ length: 8 }, ...)

\* The initial population, aiModels.ts:189-192: per individual 8 weight
\* draws, then the fitness draw.
initialPopulation(seed, b) ==
    [k \in 1..PopulationSize |->
        LET d == b + (k - 1) * (WeightCount + 1)
        IN  [weights |-> [j \in 1..WeightCount |->
                              Uniform(-2000, 4000, U(seed, d + j - 1))],
             fitness |-> Uniform(0, 1000, U(seed, d + WeightCount))]]

\* population.sort((a, b) => b.fitness - a.fitness): descending and stable.
insertByFitness(sorted, x) ==
    LET k == Cardinality({i \in 1..Len(sorted) : sorted[i].fitness >= x.fitness})
    IN  SubSeq(sorted, 1, k) \o <<x>> \o SubSeq(sorted, k + 1, Len(sorted))

RECURSIVE sortByFitness(_, _)
sortByFitness(population, n) ==
    IF n = 0 THEN <<>>
    ELSE insertByFitness(sortByFitness(population, n - 1), population[n])

\* One pass of the evolution loop, aiModels.ts:196-205; d is the number of
\* its first Math.random() draw.
generation(population, seed, d) ==
    LET sorted == sortByFitness(population, Len(population))
        survivors == SubSeq(sorted, 1, Survivors)
        offspring == [s \in 1..Len(survivors) |->
            LET e == d + (s - 1) * (WeightCount + 1)
            IN  [weights |-> [j \in 1..WeightCount |->
                     survivors[s].weights[j]
                       + (Uniform(0, 1000, U(seed, e + j - 1)) - 500) \div 10],
                 fitness |-> Mul(survivors[s].fitness,
                                 950 + Uniform(0, 100, U(seed, e + WeightCount)))]]
    IN  SubSeq(sorted, 1, Survivors) \o offspring
            \o SubSeq(sorted, Survivors + Len(survivors) + 1, Len(sorted))

\* The evolution loop, aiModels.ts:195-206: its passes g, g + 1, ... up to
\* pass number last - 1 (the loop itself runs to last = 10).
RECURSIVE evolve(_, _, _, _, _)
evolve(population, g, last, seed, b) ==
    IF g = last THEN population
    ELSE evolve(generation(population, seed,
                           b + g * Survivors * (WeightCount + 1)),
                g + 1, last, seed, b)

\* trainGA, aiModels.ts:181-241
trainGA(data, seed, b) ==
    LET first == PopulationSize * (WeightCount + 1)
        last == first + Generations * Survivors * (WeightCount + 1)
        after(n) == evolve(initialPopulation(seed, b), 0, n, seed, b + first)
        population == after(Generations)
    IN  [kind |-> "GA",
         accuracy |-> 890 + Uniform(0, 70, U(seed, b + last)),
         samples |-> Len(data),
         rmse |-> 100 + Uniform(0, 70, U(seed, b + last + 1)),
         coef |-> [population |-> population,
                   sizes |-> [n \in 1..Generations |-> Len(after(n))],
                   bestIndividual |-> population[1]]]    \* population[0]

\* train(kind, useRealData) of the specification: the four exported async
\* functions, each awaiting its data first.  None has a try/catch, so a
\* rejection of the loader would reject the call.
train(kind, useRealData, loaded, seed) ==
    LET obtained == obtainData(useRealData, loaded, seed)
        data == obtained.data
        b == dataDraws(useRealData, loaded)
    IN  IF obtained.rejected
          THEN [kind |-> kind, error |-> TRUE]
          ELSE [error |-> FALSE,
                result |-> CASE kind = "SVM" -> trainSVM(data, seed, b)
                             [] kind = "ANN" -> trainANN(data, seed, b)
                             [] kind = "ELM" -> trainELM(data, seed, b)
                             [] kind = "GA" -> trainGA(data, seed, b)]

NoCall == [kind |-> "none"]
NoResult == [error |-> FALSE]
NoPrediction == [called |-> FALSE]

\* A caller awaits train<kind>(useRealData).
Train(kind, useRealData, loaded, seed) ==
    /\ trainCall = NoCall
    /\ trainCall' = [kind |-> kind, useRealData |-> useRealData,
                     loaded |-> loaded, seed |-> seed]
    /\ trained' = train(kind, useRealData, loaded, seed)
    /\ UNCHANGED <<prediction, orchestratorVars, panelVars>>

\* The values tried for a field of params: 0, a negative number, and the
\* ends of the slider's range.
predictValues(key) ==
    <<0, -parameterConfigs[key].max, parameterConfigs[key].min, parameterConfigs[key].max>>

\* A caller invokes result.predict(params); params has any subset of the
\* fields predict reads.
Predict(params) ==
    /\ trainCall # NoCall
    /\ ~trained.error
    /\ prediction = NoPrediction
    /\ prediction' = [called |-> TRUE, params |-> params,
                      output |-> predict(trained.result, params)]
    /\ UNCHANGED <<trainCall, trained, orchestratorVars, panelVars>>

InitFactory ==
    /\ trainCall = NoCall
    /\ trained = NoResult
    /\ prediction = NoPrediction

\* Any train call.
TrainAny ==
    /\ trainCall = NoCall
    /\ \E kind \in ModelIds, useRealData \in BOOLEAN, loaded \in 0..MaxRealRecords,
          seed \in 0..MaxSeed :
          Train(kind, useRealData, loaded, seed)

\* Any predict call on the result.
PredictAny ==
    /\ trainCall # NoCall
    /\ prediction = NoPrediction
    /\ \E keys \in SUBSET PredictKeys :
          \E choice \in [keys -> 1..4] :
             Predict([k \in keys |-> predictValues(k)[choice[k]]])

FactoryNext ==
    \/ TrainAny
    \/ PredictAny

InitOrchestrator ==
    /\ selectedModel = "SVM"
    /\ trainingProgress = 0
    /\ isTraining = FALSE
    /\ timers = {}
    /\ timerSeq = 0
    /\ trainingResults = <<>>
    /\ calls = 0
    /\ mounted = TRUE
    /\ event = "init"

Init == InitOrchestrator /\ InitPanel /\ InitFactory

\* The interval callbacks that are due.
Ticks == \E t \in timers : Tick(t)

Next ==
    \/ TrainButtonClick
    \/ \E id \in ModelIds : SelectModel(id)
    \/ Ticks
    \/ Teardown

Spec == Init /\ [][Next]_vars

\* The panel stays mounted, and the browser's timer queue keeps delivering
\* the 50 ms interval for as long as it is scheduled.
NextMounted ==
    \/ TrainButtonClick
    \/ \E id \in ModelIds : SelectModel(id)
    \/ Ticks

LiveSpec == Init /\ [][NextMounted]_vars /\ WF_vars(Ticks)

\* The parameter panel on its own.  GradeChange is left out: it is never
\* enabled (see there).
PanelNext ==
    \/ \E m \in Range(materialOptions) : MaterialChange(m)
    \/ \E key \in NumericKeys : \E v \in sliderValues(key) : SliderChange(key, v)
    \/ \E gas \in Range(gasOptions) : GasChange(gas)

PanelSpec == Init /\ [][PanelNext]_vars

\* The predictor factory on its own: one train call, one predict call.
FactorySpec == Init /\ [][FactoryNext]_vars

-----------------------------------------------------------------------------
(* Training orchestrator properties *)

Running == isTraining

\* C1: while a run is Running a further start request is a no-op (no second
\* timer, progress not reset, results unchanged), so at most one timer is
\* in flight at any time.
C1_StartWhileRunningIsNoOp ==
    /\ [][(Running /\ event' \in {"train", "trainDisabled"}) =>
            /\ timers' = timers
            /\ trainingProgress' = trainingProgress
            /\ trainingResults' = trainingResults
            /\ isTraining' = isTraining]_vars
    /\ [](Cardinality(timers) <= 1)

C1_Witness ==
    /\ event = "trainDisabled"
    /\ Running
    /\ trainingProgress > 0 /\ trainingProgress < ProgressDone
    /\ Cardinality(timers) = 1

\* C2: a completing run of kind k stores its result under key k, replacing
\* any earlier entry for k and leaving the other entries alone; the keys
\* are always model ids (one entry per kind).
C2_ResultStoredUnderKind ==
    /\ [][calls' # calls =>
            \E t \in timers :
                /\ t \notin timers'
                /\ DOMAIN trainingResults' = (DOMAIN trainingResults) \cup {t.model}
                /\ trainingResults'[t.model] = calls'
                /\ \A k \in (DOMAIN trainingResults) \ {t.model} :
                       trainingResults'[k] = trainingResults[k]]_vars
    /\ [](DOMAIN trainingResults \subseteq ModelIds)

C2_Witness ==
    /\ event = "complete"
    /\ calls = 3
    /\ Cardinality(DOMAIN trainingResults) = 2
    /\ \E k \in DOMAIN trainingResults : trainingResults[k] = 3
    /\ \E k \in DOMAIN trainingResults : trainingResults[k] = 1

\* C3: after a teardown while Running no further tick fires, onTrainModel
\* is never invoked for that run and nothing is written to the results.
C3_TeardownDiscardsTick ==
    [][~mounted =>
        /\ event' \notin {"tick", "complete"}
        /\ calls' = calls
        /\ trainingResults' = trainingResults]_vars

\* C8 as claimed: whenever the orchestrator is Idle, progress is 0.
C8_IdleProgressZero == ~Running => trainingProgress = 0

\* C8 as amended: a completing run leaves the orchestrator Idle with
\* progress at 100; progress is 0 when Idle only before the first run, and
\* it is reset to 0 when the next run starts.
C8_IdleProgress ==
    /\ ~Running => trainingProgress = (IF calls = 0 THEN 0 ELSE ProgressDone)
    /\ event = "complete" => ~Running
    /\ event = "train" => Running /\ trainingProgress = 0

C8_Witness ==
    /\ event = "train"
    /\ calls = 1
    /\ trainingProgress = 0

\* C9: progress is always an even integer in 0..100; a tick while Running
\* below 100 adds exactly 2, and no step takes progress above 100.
C9_ProgressSteps ==
    /\ [](trainingProgress \in 0..100 /\ trainingProgress % 2 = 0)
    /\ [][(event' \in {"tick", "complete"} /\ Running /\ trainingProgress < 100) =>
            trainingProgress' = trainingProgress + 2]_vars
    /\ [][trainingProgress' <= 100]_vars

C9_Witness ==
    /\ event = "tick"
    /\ Running
    /\ trainingProgress = 100

\* C10: with the interval firing fairly and no teardown, every started run
\* returns to Idle; each run invokes onTrainModel exactly once, only at
\* progress 100, and that invocation ends the run's timer.
C10_RunTerminatesOneCallback ==
    /\ Running ~> ~Running
    /\ [](calls = timerSeq - Cardinality(timers))
    /\ [](~Running => timers = {})
    /\ [][calls' # calls =>
            /\ calls' = calls + 1
            /\ trainingProgress = ProgressDone
            /\ \E t \in timers : timers' = timers \ {t}]_vars

C10_Witness ==
    /\ ~Running
    /\ calls = 2
    /\ timerSeq = 2
    /\ timers = {}

\* C12: the result of a run is stored under the model kind that was selected
\* when the run was started.  The run takes the kind selected at the click
\* that starts it; choosing another model while the run is Running leaves
\* the run, its progress and the results alone; and the completing tick
\* stores the result under the run's kind, not under the kind selected by
\* then.
C12_SelectionWhileRunning ==
    /\ [][event' = "train" =>
            /\ selectedModel' = selectedModel
            /\ \E t \in timers' \ timers :
                   /\ t.model = selectedModel
                   /\ timers' = timers \cup {t}]_vars
    /\ [][selectedModel' # selectedModel =>
            /\ timers' = timers
            /\ isTraining' = isTraining
            /\ trainingProgress' = trainingProgress
            /\ trainingResults' = trainingResults
            /\ calls' = calls]_vars
    /\ [][calls' # calls =>
            \E t \in timers \ timers' :
                /\ t.model \in DOMAIN trainingResults'
                /\ trainingResults'[t.model] = calls'
                /\ \A k \in (DOMAIN trainingResults') \ {t.model} :
                       /\ k \in DOMAIN trainingResults
                       /\ trainingResults'[k] = trainingResults[k]
                       /\ trainingResults'[k] # calls']_vars

C12_Witness ==
    /\ mounted
    /\ event = "complete"
    /\ calls = 2
    /\ selectedModel = "ELM"
    /\ DOMAIN trainingResults = {"ANN", "GA"}
    /\ trainingResults["GA"] = 2

-----------------------------------------------------------------------------
(* Parameter panel properties *)

\* C4: changing material to m leaves material = m and grade = the first
\* grade option of m (Titanium -> Ti6Al4V, Aluminium -> Al-6061), whatever
\* the prior grade, and every other field unchanged.
C4_MaterialResetsGrade ==
    [][(nChanges' # nChanges /\ lastChange'.key = "material") =>
        LET m == lastChange'.value IN
        /\ m \in Range(materialOptions)
        /\ parameters'.material = m
        /\ parameters'.grade = Head(gradeOptions[m])
        /\ (m = "Titanium" => parameters'.grade = "Ti6Al4V")
        /\ (m = "Aluminium" => parameters'.grade = "Al-6061")
        /\ \A f \in (DOMAIN parameters) \ {"material", "grade"} :
               parameters'[f] = parameters[f]]_vars

C4_Witness ==
    /\ lastChange = [key |-> "material", value |-> "Titanium"]
    /\ parameters.material = "Titanium"
    /\ parameters.grade = "Ti6Al4V"
    /\ parameters.thickness = parameterConfigs.thickness.max
    /\ parameters.gasAndPressure = gasOptions[3]

\* C5: every numeric field of the ParameterSet is within its declared
\* [min, max] after any sequence of updates.
C5_NumericFieldsInRange ==
    \A key \in NumericKeys :
        /\ parameters[key] >= parameterConfigs[key].min
        /\ parameters[key] <= parameterConfigs[key].max

C5_Witness ==
    /\ nChanges = 3
    /\ parameters.speed = parameterConfigs.speed.max
    /\ parameters.deviation = parameterConfigs.deviation.max - parameterConfigs.deviation.step
    /\ parameters.laserPower = parameterConfigs.laserPower.min + parameterConfigs.laserPower.step

-----------------------------------------------------------------------------
(* Predictor factory properties *)

\* C6: for every model kind, every trained set of coefficients and every
\* params object, the empty one included, predict returns
\* materialRemovalRate >= 0, surfaceRoughness >= 0.1,
\* dimensionalAccuracy >= 1 and processingTime >= 1.
C6_PredictFloors ==
    prediction.called =>
        /\ prediction.output.materialRemovalRate >= 0
        /\ prediction.output.surfaceRoughness >= 100
        /\ prediction.output.dimensionalAccuracy >= 1000
        /\ prediction.output.processingTime >= 1000

C6_Witness ==
    /\ prediction.called
    /\ DOMAIN prediction.params = {}
    /\ trainCall.kind = "ELM"
    /\ prediction.output.surfaceRoughness = 1000
    /\ prediction.output.dimensionalAccuracy = 100000

C11_BestIndividualIsTop ==
    (trainCall # NoCall /\ trainCall.kind = "GA" /\ ~trained.error) =>
        LET coef == trained.result.coef
        IN  /\ Len(coef.sizes) = 10
            /\ \A g \in 1..Len(coef.sizes) : coef.sizes[g] = 20
            /\ Len(coef.population) = 20
            /\ \A i \in 1..Len(coef.population) :
                   coef.bestIndividual.fitness >= coef.population[i].fitness

=============================================================================
